---- MODULE Spec2Model ----
(***************************************************************************)
(* A state-machine model of WordleEnv (src/wordle_env.py): construction    *)
(* of the vocabulary, reset, and step with the two-pass scoring rule.      *)
(*                                                                         *)
(* Conventions.  A Python str is a sequence of one-character strings.      *)
(* Python indexes from 0 and TLA+ sequences from 1, so position i of the   *)
(* code is position i+1 here; action indices keep the code's 0-based (and  *)
(* negative) values.  Rewards are in tenths (1.0 is 10, -0.1 is -1).       *)
(***************************************************************************)
EXTENDS Integers, Sequences, FiniteSets, TLC

VARIABLES
    custom_words,         \* the custom_words argument __init__ was given
    init_error,           \* "none", or the exception __init__ raised
    word_list,            \* self.word_list
    num_words,            \* self.num_words
    word_length,          \* self.word_length
    max_guesses,          \* self.max_guesses
    secret_word,          \* self.secret_word
    current_guess_count,  \* self.current_guess_count
    last_feedback,        \* self.last_feedback
    alphabet_status,      \* self.alphabet_status
    guess_history,        \* self.guess_history
    feedback_history,     \* self.feedback_history
    result                \* what the last call returned or raised

vocab == <<word_list, num_words, word_length, max_guesses>>
game == <<secret_word, current_guess_count, last_feedback, alphabet_status,
          guess_history, feedback_history>>
vars == <<custom_words, init_error, vocab, game, result>>

----------------------------------------------------------------------------
(* Feedback values *)
EMPTY == 0
GRAY == 1
YELLOW == 2
GREEN == 3

(* Rewards, in tenths *)
STEP_PENALTY == -1
WIN_REWARD == 10
LOSS_REWARD == -10
NOOP_REWARD == 0

(* Bounds of the model *)
MaxGuessesBound == 3

----------------------------------------------------------------------------
(* Characters *)
LowerLetters ==
    <<"a","b","c","d","e","f","g","h","i","j","k","l","m",
      "n","o","p","q","r","s","t","u","v","w","x","y","z">>
UpperLetters ==
    <<"A","B","C","D","E","F","G","H","I","J","K","L","M",
      "N","O","P","Q","R","S","T","U","V","W","X","Y","Z">>

Range(s) == {s[i] : i \in DOMAIN s}
IndexOf(s, c) == CHOOSE i \in DOMAIN s : s[i] = c

UpperSet == Range(UpperLetters)
LowerSet == Range(LowerLetters)

\* The code points of the ASCII letters
CodePoint ==
    [c \in UpperSet \cup LowerSet |->
        IF c \in UpperSet THEN 64 + IndexOf(UpperLetters, c)
        ELSE 96 + IndexOf(LowerLetters, c)]

ord(c) == CodePoint[c]

\* chr(n) for the ASCII letters
chr(n) == IF n >= 97 THEN LowerLetters[n - 96] ELSE UpperLetters[n - 64]

\* str.lower()
lower(w) ==
    [i \in 1..Len(w) |->
        IF w[i] \in UpperSet THEN chr(ord(w[i]) + 32) ELSE w[i]]

_letter_to_int(letter) == ord(letter) - ord("a")

\* Python's order on str: by code point at the first difference, a proper
\* prefix first.
str_lt(a, b) ==
    \/ \E k \in 1..Len(a) :
          /\ k <= Len(b)
          /\ \A j \in 1..(k - 1) : a[j] = b[j]
          /\ ord(a[k]) < ord(b[k])
    \/ /\ Len(a) < Len(b)
       /\ \A j \in 1..Len(a) : a[j] = b[j]

RECURSIVE sorted(_)
sorted(S) ==
    IF S = {} THEN <<>>
    ELSE LET m == CHOOSE x \in S : \A y \in S \ {x} : str_lt(x, y)
         IN  <<m>> \o sorted(S \ {m})

\* lst[index] of a Python list: a negative index counts from the end, and an
\* index outside [-len, len) raises IndexError.
list_getitem(lst, index) ==
    IF 0 <= index /\ index < Len(lst)
    THEN [error |-> "none", value |-> lst[index + 1]]
    ELSE IF -Len(lst) <= index /\ index < 0
    THEN [error |-> "none", value |-> lst[Len(lst) + index + 1]]
    ELSE [error |-> "IndexError", value |-> <<>>]

----------------------------------------------------------------------------
(* Construction *)

\* build_word_list without the lowercasing of the words.
build_word_list_no_lower(raw, wl) ==
    IF raw = <<>>
    THEN [error |-> "ValueError", word_list |-> <<>>]
    ELSE LET kept == {raw[i] : i \in {j \in 1..Len(raw) : Len(raw[j]) = wl}}
         IN  IF kept = {}
             THEN [error |-> "ValueError", word_list |-> <<>>]
             ELSE [error |-> "none", word_list |-> sorted(kept)]

\* The word list of __init__, or the ValueError it raises.
build_word_list(raw, wl) ==
    IF raw = <<>>
    THEN [error |-> "ValueError", word_list |-> <<>>]
    ELSE LET kept == {lower(raw[i]) : i \in {j \in 1..Len(raw) : Len(raw[j]) = wl}}
         IN  IF kept = {}
             THEN [error |-> "ValueError", word_list |-> <<>>]
             ELSE [error |-> "none", word_list |-> sorted(kept)]

zeros(n) == [i \in 1..n |-> 0]
zeros26 == [i \in 0..25 |-> 0]

\* Raw word collections given to the constructor.
RawAB ==
    << <<"a","a","a">>, <<"b","b","a">>, <<"A","B","A">>, <<"a","b","b">>,
       <<"b","a","a">>, <<"B","a","b">>, <<"a","a","b">>, <<"b","b","b">>,
       <<"a","a","b">>, <<"A","A","B">>, <<"a","b">>,
       <<"a","l","l","o","w">> >>
RawFive ==
    << <<"l","o","l","l","y">>, <<"c","r","a","n","e">>,
       <<"A","L","L","O","W">>, <<"a","l","l","o","w">>,
       <<"w","o","o","l","y">>, <<"a","b","c">> >>
RawCollections == {RawAB, RawFive, <<>>}
WordLengths == {3, 5, 4}

----------------------------------------------------------------------------
(* Observation and auxiliary info *)

_get_obs(lf, as, mg, count) ==
    [last_feedback |-> lf,
     alphabet_status |-> as,
     guesses_remaining |-> mg - count]

_get_info(secret, count, gh) ==
    [secret_word |-> secret, guesses_made |-> count, guess_history |-> gh]

----------------------------------------------------------------------------
(* Scoring: the body of step, lines 133-162.  The scoring state st is     *)
(* [feedback, secret_counts, alphabet_status, error].                      *)

\* Counter(secret): the occurrences of each letter of the secret.
Counter(secret) ==
    [c \in Range(secret) |->
        Cardinality({i \in 1..Len(secret) : secret[i] = c})]

\* secret_counts[letter]: a Counter reads 0 for a key it does not hold.
counter_get(counts, letter) ==
    IF letter \in DOMAIN counts THEN counts[letter] ELSE 0

\* green_update without the decrement of the letter's remaining count.
green_update_no_decrement(st, i, letter) ==
    [st EXCEPT !.feedback[i] = GREEN,
               !.alphabet_status[_letter_to_int(letter)] = GREEN]

\* Lines 140-142: a position that matches the secret.
green_update(st, i, letter) ==
    [st EXCEPT !.feedback[i] = GREEN,
               !.secret_counts[letter] = @ - 1,
               !.alphabet_status[_letter_to_int(letter)] = GREEN]

\* yellow_update without the decrement of the letter's remaining count.
yellow_update_no_decrement(st, i, letter) ==
    LET lti == _letter_to_int(letter)
    IN  [st EXCEPT !.feedback[i] = YELLOW,
                   !.alphabet_status[lti] =
                       IF st.alphabet_status[lti] /= GREEN THEN YELLOW ELSE @]

\* yellow_update without the test that the letter is not already GREEN.
yellow_update_unconditional(st, i, letter) ==
    [st EXCEPT !.feedback[i] = YELLOW,
               !.secret_counts[letter] = @ - 1,
               !.alphabet_status[_letter_to_int(letter)] = YELLOW]

\* Lines 154-158: a letter with budget left elsewhere in the secret.
yellow_update(st, i, letter) ==
    LET lti == _letter_to_int(letter)
    IN  [st EXCEPT !.feedback[i] = YELLOW,
                   !.secret_counts[letter] = @ - 1,
                   !.alphabet_status[lti] =
                       IF st.alphabet_status[lti] /= GREEN THEN YELLOW ELSE @]

\* gray_update without the test that the letter is still unused.
gray_update_unconditional(st, i, letter) ==
    [st EXCEPT !.alphabet_status[_letter_to_int(letter)] = GRAY]

\* gray_update that keeps only GREEN: an extra copy turns a YELLOW letter GRAY.
gray_update_over_yellow(st, i, letter) ==
    LET lti == _letter_to_int(letter)
    IN  [st EXCEPT !.alphabet_status[lti] =
                       IF st.alphabet_status[lti] /= GREEN THEN GRAY ELSE @]

\* Lines 159-162: the feedback stays GRAY.
gray_update(st, i, letter) ==
    LET lti == _letter_to_int(letter)
    IN  [st EXCEPT !.alphabet_status[lti] =
                       IF st.alphabet_status[lti] = EMPTY THEN GRAY ELSE @]

\* Lines 138-142, from position i on.  Reading secret[i] past the end of
\* the secret raises IndexError and leaves the loop.
RECURSIVE green_pass(_, _, _, _)
green_pass(guess_word, secret, i, st) ==
    IF i > Len(guess_word) THEN st
    ELSE IF i > Len(secret) THEN [st EXCEPT !.error = "IndexError"]
    ELSE IF guess_word[i] = secret[i]
         THEN green_pass(guess_word, secret, i + 1, green_update(st, i, guess_word[i]))
         ELSE green_pass(guess_word, secret, i + 1, st)

\* Lines 146-162, from position i on.
RECURSIVE yellow_gray_pass(_, _, _, _)
yellow_gray_pass(guess_word, secret, i, st) ==
    IF i > Len(guess_word) THEN st
    ELSE IF st.feedback[i] = GREEN
         THEN yellow_gray_pass(guess_word, secret, i + 1, st)
    ELSE LET letter == guess_word[i]
         IN  IF letter \in Range(secret) /\ counter_get(st.secret_counts, letter) > 0
             THEN yellow_gray_pass(guess_word, secret, i + 1,
                                   yellow_update(st, i, letter))
             ELSE yellow_gray_pass(guess_word, secret, i + 1,
                                   gray_update(st, i, letter))

\* scoring_start that marks the first letter of the secret on the keyboard.
scoring_start_hints_secret(guess_word, secret, as) ==
    [feedback |-> [i \in 1..Len(guess_word) |-> GRAY],
     secret_counts |-> Counter(secret),
     alphabet_status |->
         IF secret = <<>> THEN as
         ELSE [as EXCEPT ![_letter_to_int(secret[1])] =
                             IF @ = EMPTY THEN YELLOW ELSE @],
     error |-> "none"]

\* Lines 134-135: the scoring state before the passes.
scoring_start(guess_word, secret, as) ==
    [feedback |-> [i \in 1..Len(guess_word) |-> GRAY],
     secret_counts |-> Counter(secret),
     alphabet_status |-> as,
     error |-> "none"]

\* budget_used with the comparison off by one.
budget_used_strict(count, mg) == count > mg

\* Line 126: no guess is taken once the guess budget is used up.
budget_used(count, mg) == count >= mg

\* reward_and_termination with the loss tested before the win.
reward_loss_first(guess_word, secret, count, mg) ==
    IF count = mg
    THEN [terminated |-> TRUE, reward |-> LOSS_REWARD]
    ELSE IF guess_word = secret
    THEN [terminated |-> TRUE, reward |-> WIN_REWARD]
    ELSE [terminated |-> FALSE, reward |-> STEP_PENALTY]

\* reward_and_termination with the loss tested one guess late.
reward_loss_late(guess_word, secret, count, mg) ==
    IF guess_word = secret
    THEN [terminated |-> TRUE, reward |-> WIN_REWARD]
    ELSE IF count > mg
    THEN [terminated |-> TRUE, reward |-> LOSS_REWARD]
    ELSE [terminated |-> FALSE, reward |-> STEP_PENALTY]

\* reward_and_termination with the loss leaving the per-guess penalty.
reward_loss_keeps_penalty(guess_word, secret, count, mg) ==
    IF guess_word = secret
    THEN [terminated |-> TRUE, reward |-> WIN_REWARD]
    ELSE IF count = mg
    THEN [terminated |-> TRUE, reward |-> STEP_PENALTY]
    ELSE [terminated |-> FALSE, reward |-> STEP_PENALTY]

\* reward_and_termination without the loss branch.
reward_without_loss(guess_word, secret, count, mg) ==
    IF guess_word = secret
    THEN [terminated |-> TRUE, reward |-> WIN_REWARD]
    ELSE [terminated |-> FALSE, reward |-> STEP_PENALTY]

\* Lines 170-178.
reward_and_termination(guess_word, secret, count, mg) ==
    IF guess_word = secret
    THEN [terminated |-> TRUE, reward |-> WIN_REWARD]
    ELSE IF count = mg
    THEN [terminated |-> TRUE, reward |-> LOSS_REWARD]
    ELSE [terminated |-> FALSE, reward |-> STEP_PENALTY]

----------------------------------------------------------------------------
(* Calls *)

Raised(e) == [op |-> "step", error |-> e, ret |-> <<>>]

Init ==
    \E raw \in RawCollections, wl \in WordLengths, mg \in 0..MaxGuessesBound :
        LET b == build_word_list(raw, wl)
        IN  /\ custom_words = raw
            /\ init_error = b.error
            /\ word_list = b.word_list
            /\ num_words = Len(b.word_list)
            /\ word_length = wl
            /\ max_guesses = mg
            /\ secret_word = <<>>
            /\ current_guess_count = 0
            /\ last_feedback = zeros(wl)
            /\ alphabet_status = zeros26
            /\ guess_history = <<>>
            /\ feedback_history = <<>>
            /\ result = [op |-> "init", error |-> b.error, ret |-> <<>>]

\* reset that takes the secret out of the word list it is drawn from.
reset_removes_secret ==
    /\ init_error = "none"
    /\ \E k \in 1..Len(word_list) :
          /\ secret_word' = word_list[k]
          /\ word_list' = [i \in 1..(Len(word_list) - 1) |->
                             IF i < k THEN word_list[i] ELSE word_list[i + 1]]
          /\ current_guess_count' = 0
          /\ last_feedback' = zeros(word_length)
          /\ alphabet_status' = zeros26
          /\ guess_history' = <<>>
          /\ feedback_history' = <<>>
          /\ result' = [op |-> "reset", error |-> "none",
                        ret |-> << [obs |-> _get_obs(zeros(word_length), zeros26,
                                                     max_guesses, 0),
                                    info |-> _get_info(word_list[k], 0, <<>>)] >>]
    /\ UNCHANGED <<num_words, word_length, max_guesses>>
    /\ UNCHANGED <<custom_words, init_error>>

\* reset without line 116: the feedback history of the last episode stays.
reset_keeps_feedback_history ==
    /\ init_error = "none"
    /\ \E secret \in Range(word_list) :
          /\ secret_word' = secret
          /\ current_guess_count' = 0
          /\ last_feedback' = zeros(word_length)
          /\ alphabet_status' = zeros26
          /\ guess_history' = <<>>
          /\ feedback_history' = feedback_history
          /\ result' = [op |-> "reset", error |-> "none",
                        ret |-> << [obs |-> _get_obs(zeros(word_length), zeros26,
                                                     max_guesses, 0),
                                    info |-> _get_info(secret, 0, <<>>)] >>]
    /\ UNCHANGED vocab
    /\ UNCHANGED <<custom_words, init_error>>

\* reset without line 114: the alphabet status of the last episode stays.
reset_keeps_alphabet_status ==
    /\ init_error = "none"
    /\ \E secret \in Range(word_list) :
          /\ secret_word' = secret
          /\ current_guess_count' = 0
          /\ last_feedback' = zeros(word_length)
          /\ alphabet_status' = alphabet_status
          /\ guess_history' = <<>>
          /\ feedback_history' = <<>>
          /\ result' = [op |-> "reset", error |-> "none",
                        ret |-> << [obs |-> _get_obs(zeros(word_length), alphabet_status,
                                                     max_guesses, 0),
                                    info |-> _get_info(secret, 0, <<>>)] >>]
    /\ UNCHANGED vocab
    /\ UNCHANGED <<custom_words, init_error>>

reset ==
    /\ init_error = "none"
    /\ \E secret \in Range(word_list) :
          /\ secret_word' = secret
          /\ current_guess_count' = 0
          /\ last_feedback' = zeros(word_length)
          /\ alphabet_status' = zeros26
          /\ guess_history' = <<>>
          /\ feedback_history' = <<>>
          /\ result' = [op |-> "reset", error |-> "none",
                        ret |-> << [obs |-> _get_obs(zeros(word_length), zeros26,
                                                     max_guesses, 0),
                                    info |-> _get_info(secret, 0, <<>>)] >>]
    /\ UNCHANGED vocab
    /\ UNCHANGED <<custom_words, init_error>>

\* step on an episode whose budget is used up (line 127).
step_noop ==
    /\ UNCHANGED game
    /\ result' = [op |-> "step", error |-> "none",
                  ret |-> << [obs |-> _get_obs(last_feedback, alphabet_status,
                                               max_guesses, current_guess_count),
                              reward |-> NOOP_REWARD,
                              terminated |-> TRUE,
                              truncated |-> FALSE,
                              info |-> _get_info(secret_word, current_guess_count,
                                                 guess_history)] >>]

\* step from line 131 on, with the decoded guess: the guess is counted, the
\* green pass runs (and may raise), then the yellow/gray pass, and the
\* feedback is saved.  (g, st and rt range over singletons so that each pass
\* is evaluated once.)
step_guess(guess_word) ==
    /\ current_guess_count' = current_guess_count + 1
    /\ UNCHANGED secret_word
    /\ \E g \in {green_pass(guess_word, secret_word, 1,
                             scoring_start(guess_word, secret_word, alphabet_status))} :
          IF g.error /= "none"
          THEN /\ alphabet_status' = g.alphabet_status
               /\ UNCHANGED <<last_feedback, guess_history, feedback_history>>
               /\ result' = Raised(g.error)
          ELSE /\ guess_history' = Append(guess_history, guess_word)
               /\ \E st \in {yellow_gray_pass(guess_word, secret_word, 1, g)} :
                  \E rt \in {reward_and_termination(guess_word, secret_word,
                                                     current_guess_count + 1,
                                                     max_guesses)} :
                     /\ alphabet_status' = st.alphabet_status
                     /\ last_feedback' = st.feedback
                     /\ feedback_history' = Append(feedback_history, st.feedback)
                     /\ result' =
                          [op |-> "step", error |-> "none",
                           ret |-> << [obs |-> _get_obs(st.feedback, st.alphabet_status,
                                                        max_guesses,
                                                        current_guess_count + 1),
                                       reward |-> rt.reward,
                                       terminated |-> rt.terminated,
                                       truncated |-> FALSE,
                                       info |-> _get_info(secret_word,
                                                          current_guess_count + 1,
                                                          Append(guess_history,
                                                                 guess_word))] >>]

\* step that decodes the action (line 130) before it tests the budget.
step_decodes_first(action) ==
    /\ init_error = "none"
    /\ UNCHANGED vocab
    /\ UNCHANGED <<custom_words, init_error>>
    /\ LET d == list_getitem(word_list, action)
       IN  IF d.error /= "none"
           THEN /\ UNCHANGED game
                /\ result' = Raised(d.error)
           ELSE IF budget_used(current_guess_count, max_guesses)
           THEN step_noop
           ELSE step_guess(d.value)

\* Lines 123-185.
step(action) ==
    /\ init_error = "none"
    /\ UNCHANGED vocab
    /\ UNCHANGED <<custom_words, init_error>>
    /\ IF budget_used(current_guess_count, max_guesses)
       THEN step_noop
       ELSE LET d == list_getitem(word_list, action)
            IN  IF d.error /= "none"
                THEN /\ UNCHANGED game
                     /\ result' = Raised(d.error)
                ELSE step_guess(d.value)

\* The action indices tried: every index of the list, the first one past its
\* end, and the negative indices at both ends of Python's range and past it.
Actions == (0..num_words) \cup {-1, -num_words, -num_words - 1}

Step == \E action \in Actions : step(action)

Next == reset \/ Step

Spec == Init /\ [][Next]_vars

----------------------------------------------------------------------------
(* Vocabulary of the properties *)

Returned == result.error = "none" /\ result.ret /= <<>>
Ret == result.ret[1]
StepReturned == result.op = "step" /\ Returned
Last(s) == s[Len(s)]
Occurrences(w, c) == Cardinality({j \in 1..Len(w) : w[j] = c})
AllGreen(fb) == \A i \in 1..Len(fb) : fb[i] = GREEN

\* The two-pass Wordle reference, position by position.
RefFeedback(secret, guess) ==
    [i \in 1..Len(guess) |->
        IF guess[i] = secret[i] THEN GREEN
        ELSE LET c == guess[i]
                 earlier == {j \in 1..(i - 1) : guess[j] /= secret[j] /\ guess[j] = c}
                 greens == {j \in 1..Len(guess) : guess[j] = secret[j] /\ guess[j] = c}
             IN  IF Cardinality(earlier) < Occurrences(secret, c) - Cardinality(greens)
                 THEN YELLOW
                 ELSE GRAY]

Allow == <<"a","l","l","o","w">>
Lolly == <<"l","o","l","l","y">>

\* C1: the feedback step produces for a guess equals the two-pass Wordle
\* reference for that guess and the secret word: in the history, in
\* last_feedback and in the observation step returns.
C1_FeedbackIsTwoPassReference ==
    /\ \A k \in 1..Len(feedback_history) :
          feedback_history[k] = RefFeedback(secret_word, guess_history[k])
    /\ guess_history /= <<>> =>
          /\ last_feedback = RefFeedback(secret_word, Last(guess_history))
          /\ StepReturned => Ret.obs.last_feedback = last_feedback

\* Secret "allow", guess "lolly": [YELLOW, YELLOW, GREEN, GRAY, GRAY].
C1_Witness ==
    /\ StepReturned
    /\ secret_word = Allow
    /\ guess_history /= <<>>
    /\ Last(guess_history) = Lolly
    /\ Ret.obs.last_feedback = <<YELLOW, YELLOW, GREEN, GRAY, GRAY>>

\* C2: after an accepted guess every position of lastFeedback is GRAY, YELLOW
\* or GREEN, and no letter has more GREEN or YELLOW positions in the guess
\* than it has occurrences in the secret word.
C2_FeedbackWithinLetterBudget ==
    guess_history /= <<>> =>
        LET guess == Last(guess_history)
        IN  /\ DOMAIN last_feedback = 1..word_length
            /\ \A i \in 1..word_length : last_feedback[i] \in {GRAY, YELLOW, GREEN}
            /\ \A c \in Range(guess) :
                  Cardinality({i \in 1..word_length :
                                  guess[i] = c /\ last_feedback[i] \in {YELLOW, GREEN}})
                      <= Occurrences(secret_word, c)
            /\ StepReturned => Ret.obs.last_feedback = last_feedback

\* A guess with more copies of a letter than the secret has: the budget binds.
C2_Witness ==
    /\ StepReturned
    /\ guess_history /= <<>>
    /\ \E c \in Range(Last(guess_history)) :
          /\ Occurrences(Last(guess_history), c) > Occurrences(secret_word, c)
          /\ Occurrences(secret_word, c) > 0
          /\ Cardinality({i \in 1..word_length :
                             Last(guess_history)[i] = c
                             /\ last_feedback[i] \in {YELLOW, GREEN}})
                = Occurrences(secret_word, c)

\* The word action decodes to, when step takes a guess for it.
Decodes(action) == list_getitem(word_list, action).error = "none"
GuessOf(action) == list_getitem(word_list, action).value
BudgetLeft == current_guess_count < max_guesses

\* C3: a step with budget left whose guess is the secret word returns all-GREEN
\* feedback, reward +1.0 and terminated, at every guess number up to the last.
C3_SecretGuessWins ==
    [][\A action \in Actions :
          (/\ BudgetLeft
           /\ Decodes(action)
           /\ GuessOf(action) = secret_word
           /\ step(action))
          => /\ result'.error = "none"
             /\ AllGreen(result'.ret[1].obs.last_feedback)
             /\ AllGreen(last_feedback')
             /\ result'.ret[1].reward = WIN_REWARD
             /\ result'.ret[1].terminated = TRUE]_vars

\* The secret guessed with the last allowed guess, after wrong ones.
C3_Witness ==
    /\ StepReturned
    /\ max_guesses >= 2
    /\ current_guess_count = max_guesses
    /\ Len(guess_history) = max_guesses
    /\ Last(guess_history) = secret_word
    /\ \A k \in 1..(Len(guess_history) - 1) : guess_history[k] /= secret_word
    /\ Ret.reward = WIN_REWARD
    /\ Ret.terminated

\* C4: the step that brings the guess count to max_guesses with a guess other
\* than the secret returns reward -1.0, terminated and guessesRemaining 0.
C4_LastWrongGuessLoses ==
    [][\A action \in Actions :
          (/\ BudgetLeft
           /\ current_guess_count + 1 = max_guesses
           /\ Decodes(action)
           /\ GuessOf(action) /= secret_word
           /\ result'.error = "none"
           /\ step(action))
          => /\ result'.ret[1].reward = LOSS_REWARD
             /\ result'.ret[1].terminated = TRUE
             /\ result'.ret[1].obs.guesses_remaining = 0]_vars

\* A lost episode whose final guess has a GREEN and a YELLOW letter.
C4_Witness ==
    /\ StepReturned
    /\ max_guesses >= 2
    /\ Len(guess_history) = max_guesses
    /\ \A k \in 1..Len(guess_history) : guess_history[k] /= secret_word
    /\ \E i, j \in 1..word_length : last_feedback[i] = GREEN /\ last_feedback[j] = YELLOW
    /\ Ret.reward = LOSS_REWARD
    /\ Ret.obs.guesses_remaining = 0

\* C5: a step with budget left whose guess is not the secret and which leaves
\* guesses to spare returns reward -0.1 and terminated = false; and a step
\* returns terminated = false exactly when its reward is -0.1.
C5_PenaltyIffNotTerminated ==
    /\ [](StepReturned => (Ret.terminated = FALSE <=> Ret.reward = STEP_PENALTY))
    /\ [][\A action \in Actions :
             (/\ BudgetLeft
              /\ current_guess_count + 1 < max_guesses
              /\ Decodes(action)
              /\ GuessOf(action) /= secret_word
              /\ result'.error = "none"
              /\ step(action))
             => /\ result'.ret[1].reward = STEP_PENALTY
                /\ result'.ret[1].terminated = FALSE]_vars

\* A wrong guess with guesses to spare.
C5_Witness ==
    /\ StepReturned
    /\ guess_history /= <<>>
    /\ Last(guess_history) /= secret_word
    /\ current_guess_count < max_guesses
    /\ Ret.reward = STEP_PENALTY
    /\ Ret.terminated = FALSE

LetterIndices == 0..25

\* The feedback values letter index l received in the guesses of the episode.
FeedbackOfLetter(l) ==
    UNION {{feedback_history[k][i] :
                i \in {j \in 1..word_length : _letter_to_int(guess_history[k][j]) = l}} :
           k \in 1..Len(guess_history)}

Max(S) == CHOOSE x \in S : \A y \in S : y <= x

\* C6: within an episode no step lowers the alphabet status of any letter
\* under UNUSED < GRAY < YELLOW < GREEN.
C6_AlphabetStatusNeverRegresses ==
    [][result'.op = "step" =>
          \A l \in LetterIndices : alphabet_status'[l] >= alphabet_status[l]]_vars

\* A GREEN letter, and a YELLOW one, that a later guess scored lower.
C6_Witness ==
    /\ StepReturned
    /\ Len(guess_history) >= 2
    /\ \E l \in LetterIndices :
          /\ alphabet_status[l] = GREEN
          /\ FeedbackOfLetter(l) /= {}
          /\ \A i \in 1..word_length :
                _letter_to_int(Last(guess_history)[i]) = l
                    => last_feedback[i] \in {GRAY, YELLOW}
          /\ \E i \in 1..word_length :
                /\ _letter_to_int(Last(guess_history)[i]) = l
                /\ last_feedback[i] = YELLOW
    /\ \E k \in 1..Len(guess_history), i \in 1..word_length :
          /\ feedback_history[k][i] = GRAY
          /\ alphabet_status[_letter_to_int(guess_history[k][i])] = GREEN

\* C7: the alphabet status of every letter is the best feedback the letter
\* received in the guesses of the current episode, and UNUSED iff the letter
\* occurs in none of them.
C7_AlphabetStatusIsBestFeedback ==
    /\ \A l \in LetterIndices :
          /\ alphabet_status[l] = Max(FeedbackOfLetter(l) \cup {EMPTY})
          /\ alphabet_status[l] = EMPTY <=> FeedbackOfLetter(l) = {}
    /\ Returned => Ret.obs.alphabet_status = alphabet_status

\* Letters at every status at once, one of them above a GRAY it also received.
C7_Witness ==
    /\ StepReturned
    /\ Len(guess_history) >= 2
    /\ \E l \in LetterIndices : alphabet_status[l] = GRAY
    /\ \E l \in LetterIndices : alphabet_status[l] = YELLOW
    /\ \E l \in LetterIndices : alphabet_status[l] = GREEN
    /\ \E l \in LetterIndices : alphabet_status[l] = EMPTY
    /\ \E l \in LetterIndices :
          GRAY \in FeedbackOfLetter(l) /\ alphabet_status[l] > GRAY

\* C8: guessesRemaining is max_guesses - guessCount and lies in
\* 0..max_guesses in every observation, the guess count never exceeds
\* max_guesses, and every step that takes a guess lowers guessesRemaining by 1.
C8_GuessesRemaining ==
    /\ [](/\ current_guess_count \in 0..max_guesses
          /\ Returned =>
                /\ Ret.obs.guesses_remaining = max_guesses - current_guess_count
                /\ Ret.obs.guesses_remaining \in 0..max_guesses)
    /\ [][\A action \in Actions :
             (/\ BudgetLeft
              /\ Decodes(action)
              /\ result'.error = "none"
              /\ step(action))
             => result'.ret[1].obs.guesses_remaining
                    = _get_obs(last_feedback, alphabet_status, max_guesses,
                               current_guess_count).guesses_remaining - 1]_vars

\* The last guess of the budget taken: guessesRemaining went from 1 to 0.
C8_Witness ==
    /\ StepReturned
    /\ max_guesses >= 2
    /\ Len(guess_history) = max_guesses
    /\ Ret.obs.guesses_remaining = 0
    /\ Ret.reward /= NOOP_REWARD

\* The terminal states of an episode.
Won == \E k \in 1..Len(guess_history) : guess_history[k] = secret_word
Lost == current_guess_count >= max_guesses

\* C9: once an episode is Won or Lost, every later step without a reset
\* takes no guess: it leaves the guess count, lastFeedback, alphabetStatus and
\* the histories unchanged and returns the terminal observation, reward 0 and
\* terminated = true.
C9_TerminalStepIsNoop ==
    [][((Won \/ Lost) /\ result'.op = "step") =>
          /\ UNCHANGED game
          /\ result'.error = "none"
          /\ result'.ret[1].obs = _get_obs(last_feedback, alphabet_status,
                                           max_guesses, current_guess_count)
          /\ result'.ret[1].reward = NOOP_REWARD
          /\ result'.ret[1].terminated = TRUE]_vars

\* C10: in an episode with budget left, a step with an action outside
\* [0, num_words), negative ones included, raises an error and scores no guess.
C10_OutOfRangeActionFails ==
    [][\A action \in Actions :
          (/\ secret_word /= <<>>
           /\ BudgetLeft
           /\ (action < 0 \/ action >= num_words)
           /\ step(action))
          => /\ result'.error /= "none"
             /\ UNCHANGED game]_vars

\* C11: a call of step that ends in an error (an action index that does not
\* decode, or step before the first reset) leaves the guess count,
\* lastFeedback, alphabetStatus and both histories as they were.
C11_FailedStepLeavesState ==
    [][(result'.op = "step" /\ result'.error /= "none") => UNCHANGED game]_vars

\* C12: reset, from whatever state, leaves guess count 0, empty histories, a
\* secret word of the vocabulary, and returns lastFeedback all EMPTY,
\* alphabetStatus all UNUSED and guessesRemaining = max_guesses.
C12_ResetStartsFreshEpisode ==
    [][result'.op = "reset" =>
          /\ current_guess_count' = 0
          /\ guess_history' = <<>>
          /\ feedback_history' = <<>>
          /\ \E k \in 1..Len(word_list') : secret_word' = word_list'[k]
          /\ last_feedback' = [i \in 1..word_length' |-> EMPTY]
          /\ alphabet_status' = [l \in 0..25 |-> EMPTY]
          /\ result'.error = "none"
          /\ result'.ret[1].obs =
                [last_feedback |-> [i \in 1..word_length' |-> EMPTY],
                 alphabet_status |-> [l \in 0..25 |-> EMPTY],
                 guesses_remaining |-> max_guesses']
          /\ result'.ret[1].info.secret_word = secret_word'
          /\ result'.ret[1].info.guess_history = <<>>]_vars

\* A fresh episode of a game with several words and guesses.
C12_Witness ==
    /\ result.op = "reset"
    /\ Returned
    /\ num_words >= 2
    /\ max_guesses >= 2
    /\ secret_word \in Range(word_list)
    /\ Ret.obs.guesses_remaining = max_guesses
    /\ current_guess_count = 0

\* A word with every upper-case letter replaced by its lower-case letter.
Lowercased(w) ==
    [i \in 1..Len(w) |->
        IF \E j \in 1..26 : UpperLetters[j] = w[i]
        THEN LowerLetters[CHOOSE j \in 1..26 : UpperLetters[j] = w[i]]
        ELSE w[i]]

\* Dictionary order on lower-case words.
AlphabetRank(c) == CHOOSE j \in 1..26 : LowerLetters[j] = c
DictionaryLess(a, b) ==
    \E k \in 1..Len(a) :
        /\ k <= Len(b)
        /\ \A j \in 1..(k - 1) : a[j] = b[j]
        /\ AlphabetRank(a[k]) < AlphabetRank(b[k])

\* The lowercased raw words of length exactly word_length.
WantedWords ==
    {Lowercased(custom_words[i]) :
        i \in {j \in 1..Len(custom_words) : Len(custom_words[j]) = word_length}}

\* C13: construction gives the dictionary-sorted, duplicate-free list of the
\* lowercased raw words of length exactly L, non-empty, with num_words its
\* length, and fails exactly when the raw collection is empty or has no word
\* of length L.
C13_WordListIsSortedFilteredSet ==
    /\ init_error \in {"none", "ValueError"}
    /\ init_error = "ValueError" <=> (custom_words = <<>> \/ WantedWords = {})
    /\ init_error = "none" =>
          /\ word_list /= <<>>
          /\ Range(word_list) = WantedWords
          /\ Len(word_list) = Cardinality(WantedWords)
          /\ \A i, j \in 1..Len(word_list) :
                i < j => DictionaryLess(word_list[i], word_list[j])
          /\ \A i \in 1..Len(word_list) : Len(word_list[i]) = word_length
          /\ num_words = Len(word_list)
          /\ \A action \in 0..(num_words - 1) :
                list_getitem(word_list, action).error = "none"

\* A list built from raw words out of order, of several lengths, with upper
\* case and with duplicates that differ only in case.
C13_Witness ==
    /\ init_error = "none"
    /\ num_words >= 2
    /\ \E i \in 1..Len(custom_words) : Len(custom_words[i]) /= word_length
    /\ \E i, j \in 1..Len(custom_words) :
          /\ custom_words[i] /= custom_words[j]
          /\ Lowercased(custom_words[i]) = Lowercased(custom_words[j])
          /\ Len(custom_words[i]) = word_length
    /\ \E i, j \in 1..Len(custom_words) :
          /\ i < j
          /\ Len(custom_words[i]) = word_length
          /\ Len(custom_words[j]) = word_length
          /\ DictionaryLess(Lowercased(custom_words[j]), Lowercased(custom_words[i]))

\* C14: no reset and no step changes the word list, its order or its size,
\* so every action index decodes to the same word before and after.
C14_VocabularyIsImmutable ==
    [][/\ word_list' = word_list
       /\ Len(word_list') = Len(word_list)
       /\ num_words' = num_words
       /\ \A k \in 1..Len(word_list) : word_list'[k] = word_list[k]]_vars

\* Two guesses into an episode, the word list is still the one constructed.
C14_Witness ==
    /\ StepReturned
    /\ num_words >= 2
    /\ Len(guess_history) >= 2
    /\ guess_history[1] /= guess_history[2]
    /\ word_list = build_word_list(custom_words, word_length).word_list
    /\ \A k \in 1..Len(guess_history) :
          \E action \in 0..(num_words - 1) :
              list_getitem(word_list, action).value = guess_history[k]

\* The observation as the guesses made and the feedback they received give
\* it, without the secret word.
PublicObservation ==
    [last_feedback |->
         IF feedback_history = <<>> THEN [i \in 1..word_length |-> EMPTY]
         ELSE Last(feedback_history),
     alphabet_status |->
         [l \in LetterIndices |-> Max(FeedbackOfLetter(l) \cup {EMPTY})],
     guesses_remaining |-> max_guesses - Len(guess_history)]

\* C15: the observation reset and step return in an episode is determined by
\* the configuration, the guesses made and the feedback they received, so two
\* runs with the same actions and equal feedback sequences return equal
\* observations whatever their secret words; the secret word is returned in
\* the auxiliary info only.
C15_ObservationDependsOnFeedbackOnly ==
    (Returned /\ secret_word /= <<>>) =>
        /\ Ret.obs = PublicObservation
        /\ DOMAIN Ret.obs = {"last_feedback", "alphabet_status", "guesses_remaining"}
        /\ Ret.info.secret_word = secret_word

\* An observation that another secret word of the vocabulary would have
\* produced as well: every guess so far scores the same against it.
C15_Witness ==
    /\ StepReturned
    /\ guess_history /= <<>>
    /\ Ret.obs = PublicObservation
    /\ \E k \in 1..Len(word_list) :
          /\ word_list[k] /= secret_word
          /\ \A n \in 1..Len(guess_history) :
                RefFeedback(word_list[k], guess_history[n]) = feedback_history[n]

\* C16: after a reset every step with a valid action returns; while the
\* budget is not used up it counts one more guess, the count never passes
\* max_guesses, and the step that leaves the count at max_guesses (the
\* max_guesses-th guess, or the first step when max_guesses is 0) returns
\* terminated = true.  So no max_guesses accepted guesses after a reset all
\* return terminated = false.
C16_EpisodeTerminatesWithinBudget ==
    [][\A action \in 0..(num_words - 1) :
          (result'.op = "step" /\ secret_word /= <<>> /\ step(action)) =>
              /\ result'.error = "none"
              /\ current_guess_count < max_guesses =>
                     current_guess_count' = current_guess_count + 1
              /\ current_guess_count' <= max_guesses
              /\ current_guess_count' >= max_guesses => result'.ret[1].terminated]_vars

\* An episode that used its whole budget of at least two guesses without
\* guessing the secret: the last of them returned terminated.
C16_Witness ==
    /\ StepReturned
    /\ max_guesses >= 2
    /\ Len(guess_history) = max_guesses
    /\ current_guess_count = max_guesses
    /\ \A n \in 1..Len(guess_history) : guess_history[n] /= secret_word
    /\ Ret.terminated

\* C17: when current_guess_count has reached max_guesses, step with any
\* action, a valid index or not, leaves the secret word, the guess count, the
\* last feedback, the alphabet status and both histories unchanged, does not
\* raise, and returns the current observation with reward 0,
\* terminated = true and truncated = false.
C17_StepAtBudgetIsNoop ==
    [][\A action \in Actions :
          (result'.op = "step" /\ current_guess_count >= max_guesses /\ step(action)) =>
              /\ UNCHANGED <<secret_word, current_guess_count, last_feedback,
                             alphabet_status, guess_history, feedback_history>>
              /\ result'.error = "none"
              /\ Len(result'.ret) = 1
              /\ result'.ret[1].obs =
                     [last_feedback |-> last_feedback,
                      alphabet_status |-> alphabet_status,
                      guesses_remaining |-> max_guesses - current_guess_count]
              /\ result'.ret[1].reward = 0
              /\ result'.ret[1].terminated = TRUE
              /\ result'.ret[1].truncated = FALSE]_vars

\* The step after a whole budget of at least one guess was used: it returned
\* reward 0 and terminated, with no guess remaining.
C17_Witness ==
    /\ StepReturned
    /\ max_guesses >= 1
    /\ current_guess_count = max_guesses
    /\ Len(guess_history) = max_guesses
    /\ Ret.reward = 0
    /\ Ret.terminated
    /\ ~Ret.truncated
    /\ Ret.obs.guesses_remaining = 0
    /\ Ret.obs.last_feedback = Last(feedback_history)

\* No step has raised since the last reset or, before the first reset, since
\* construction: the only step that raises after it changed the state is the
\* step before the first reset, which counts a guess and has no secret yet.
NoStepRaisedHalfway == secret_word /= <<>> \/ current_guess_count = 0

\* C18: in every state reached by reset and returning steps, guess_history
\* and feedback_history both have current_guess_count entries, and when that
\* count is positive last_feedback is the last entry of feedback_history,
\* which is the feedback of the last entry of guess_history against the
\* secret word.
C18_HistoriesMatchGuessCount ==
    NoStepRaisedHalfway =>
        /\ Len(guess_history) = current_guess_count
        /\ Len(feedback_history) = current_guess_count
        /\ current_guess_count > 0 =>
              /\ last_feedback = feedback_history[current_guess_count]
              /\ feedback_history[current_guess_count] =
                     RefFeedback(secret_word, guess_history[current_guess_count])

\* Two or more guesses of an episode, the last scored differently from the
\* first.
C18_Witness ==
    /\ StepReturned
    /\ current_guess_count >= 2
    /\ Len(guess_history) = current_guess_count
    /\ Len(feedback_history) = current_guess_count
    /\ feedback_history[1] /= feedback_history[current_guess_count]
    /\ last_feedback = feedback_history[current_guess_count]

\* The alphabet indices of the letters of a word.
LettersOf(w) == {_letter_to_int(w[i]) : i \in 1..Len(w)}

\* C19: after a reset, a letter whose alphabet status is GRAY does not occur
\* in the secret word, and a letter whose alphabet status is YELLOW or GREEN
\* occurs in it; so a guessed letter of the secret is never GRAY, whatever
\* its extra copies were scored.
C19_AlphabetStatusIsSound ==
    secret_word /= <<>> =>
        \A l \in LetterIndices :
            /\ alphabet_status[l] = GRAY => l \notin LettersOf(secret_word)
            /\ alphabet_status[l] \in {YELLOW, GREEN} => l \in LettersOf(secret_word)
            /\ (l \in LettersOf(secret_word)
                  /\ \E n \in 1..Len(guess_history) : l \in LettersOf(guess_history[n]))
               => alphabet_status[l] \in {YELLOW, GREEN}

\* A guess with more copies of a letter than the secret has: one copy was
\* scored GRAY, the letter is marked YELLOW or GREEN, and another guessed
\* letter is marked GRAY.
C19_Witness ==
    /\ StepReturned
    /\ secret_word /= <<>>
    /\ \E n \in 1..Len(guess_history) : \E i \in 1..word_length :
          /\ feedback_history[n][i] = GRAY
          /\ _letter_to_int(guess_history[n][i]) \in LettersOf(secret_word)
          /\ alphabet_status[_letter_to_int(guess_history[n][i])] \in {YELLOW, GREEN}
    /\ \E l \in LetterIndices : alphabet_status[l] = GRAY
====
